---- MODULE Spec2Model ----
(***************************************************************************)
(* Encoder-emulation driver of the filter module (hardware/rpi.py, RPiHW;  *)
(* the stand-alone CLI twin is hardware/inter.py).                         *)
(*                                                                         *)
(* The driver keeps a shadow state (mode, center_freq, bandwidth) and      *)
(* moves it by emulated encoder detents.  One caller thread issues the     *)
(* calls; a call that loops is modelled one loop iteration per action, so  *)
(* that a loop which never ends is a behaviour of the model and not a      *)
(* missing transition.                                                     *)
(***************************************************************************)
EXTENDS Integers, Sequences, FiniteSets, TLC

(* ---------------------------------------------------------------------- *)
(* Program constants                                                       *)
(* ---------------------------------------------------------------------- *)
MIN_HZ == 200
MAX_HZ == 3500
CF_THRESHOLD == 2000
CF_STEP_LOW == 25
CF_STEP_HIGH == 50
BW_THRESHOLD_LOW == 400
BW_THRESHOLD_HIGH == 700
BW_STEP_LOW == 20
BW_STEP_MID == 50
BW_STEP_HIGH == 100
INIT_CENTER_FREQ == 1500
INIT_BANDWIDTH == 2400
WIPER_MIN == 0
WIPER_MAX == 255
WIPER_CMD == 17
INIT_VOLUME == 128
GPIO_LOW == 0
GPIO_HIGH == 1
\* Levels handed to the observer, in hundredths: 1.0 and 0.0.
LEVEL_OVERLOAD == 100
LEVEL_CLEAR == 0
\* Defaults the GUI sets on its sliders.
GUI_INIT_CF == 750
GUI_INIT_BW == 1200
\* overload = level_pct >= 0.90, in hundredths
OVERLOAD_THRESHOLD == 90

(* ---------------------------------------------------------------------- *)
(* Bounds of the model                                                     *)
(* ---------------------------------------------------------------------- *)
\* Saturation point of the per-call step counter (an observer, not program
\* state): larger than the longest monotone walk across [MIN_HZ, MAX_HZ].
StepCap == 170

\* Targets handed to set_center_frequency / set_bandwidth: below and above
\* the domain, on the step grid, and off every reachable grid.
Targets == {150, 350, 1000, 1510, 1650, 2400, 2450, 3600}

\* Levels an indicator line can read.
Levels == {0, 1}

\* Arguments handed to set_volume: below, inside and above the wiper range.
VolumeArgs == {-5, 0, 77, 255, 300}

\* Targets used where the auxiliary controls run next to the convergence
\* calls.
AuxTargets == {1650, 2400}

\* The threads that run GUI code: Tk's main thread and a poller thread.
Threads == {"main", "poller"}

\* Timer jobs the LED creates, and switch toggles, that are followed.
MaxJobs == 4
MaxToggles == 3

\* Levels handed to the GUI's level handler, in hundredths.
GuiLevels == {0, 89, 90, 100}

\* Topics of the event bus, handlers that can be subscribed, payloads, and
\* the subscriptions per topic that are followed.
Topics == {"bypass", "volume_pct"}
Handlers == {"h1", "h2"}
Payloads == {0, 1}
MaxSubs == 3

\* What a handler does when it is called: it returns, it raises an
\* exception of class Exception, it raises one outside that class
\* (KeyboardInterrupt, SystemExit), or it subscribes a handler to the
\* topic being published and returns.
Outcomes == {"returns", "raises", "exits", "subscribes"}

\* Observers that can be registered for the overload level.
Observers == {"obs1", "obs2"}

\* Poller threads that can be started, and reads of the overload line that
\* all of them together make.
MaxPollers == 2
MaxTicks == 3

\* Values the step-size policy is evaluated on: the whole domain.
PolicyValues == MIN_HZ..MAX_HZ

(* ---------------------------------------------------------------------- *)
(* State                                                                   *)
(* ---------------------------------------------------------------------- *)
VARIABLES
    mode,          \* self.mode: "centre" | "bandwidth"
    center_freq,   \* self.center_freq
    bandwidth,     \* self.bandwidth
    pc,            \* where the caller thread is: "idle" | "cf_loop" | "bw_loop"
    target,        \* the local `target` of the running set_* call
    toggle_ret,    \* what the last toggle_mode() handed back to its caller
    \* observers of the current (or, when idle, the last) call
    req,           \* the call: "none" | "centre" | "bandwidth" (the mode it needs) |
                   \* "toggle" | "step" | "volume" | "bypass" | "toggle_bypass"
    modeBefore,    \* self.mode when the call was entered
    startVal,      \* value of the call's own parameter when it was entered
    arg,           \* the argument the call was given (target_freq / target_bw)
    presses,       \* button presses performed by the call
    readback,      \* <<cf, bw>> read by the call's toggle_mode, <<>> if none
    nsteps,        \* encoder detents issued by the call (saturates at StepCap)
    dirs,          \* directions of the detents issued by the call
    prevReq,       \* req of the call before this one
    prevPresses,   \* presses of the call before this one
    \* encoder output lines
    enc_lines,     \* levels last driven on (ENC_A, ENC_B)
    enc_trace,     \* the (a, b) pairs driven by the last step() call, in order
    last_dir,      \* direction of the last step() call, "none" before the first
    \* auxiliary controls
    volume,        \* self.volume
    bypass_state,  \* self.bypass_state
    bypass_line,   \* level last driven on the BYPASS line
    spi_frames,    \* frames written to the bus by the last set_volume call
    \* overload poller
    level_cb,      \* self._level_cb: "none" or the registered observer
    stop_meter,    \* self._stop_meter (read as False while not yet set)
    poll_pc,       \* per poller thread: "unstarted" | "test" | "read" | "deliver" | "done"
    poll_raw,      \* per poller thread: its local `raw`
    poll_reads,    \* per poller thread: the levels it read on LED_OVER, in order
    poll_delivered,\* per poller thread: the observer calls it made, in order
    delivered_at_stop, \* per poller thread: observer calls made when stop() last ran
    \* evaluation of the step-size policy on its own
    pol_param,     \* "none" | "center" | "bandwidth"
    pol_value,     \* the current value the policy is asked about
    pol_step,      \* the step size it gave, 0 before it is asked
    \* the command loop
    nraw,          \* raw `step` commands issued so far
    \* the sliders of the GUI
    cf_slider,     \* cf_var: value of the centre-frequency slider
    bw_slider,     \* bw_var: value of the bandwidth slider
    gui_stage,     \* "push_cf" | "push_bw" | "ready": how far __init__'s pushes got
    \* the DSP/BYPASS switch of the GUI
    switch_value,  \* bypass_switch.value
    bypass_calls,  \* the values the GUI handed to hw.set_bypass, in order
    \* the overload LED of the GUI
    led_flashing,  \* level_led._flashing
    led_job,       \* level_led._job: id of a timer job, 0 for None
    led_color,     \* fill of the LED: "dim" | "bright"
    timers,        \* ids of the timer jobs pending in the Tk event loop
    jobs_made,     \* timer jobs created so far (ids are never used twice)
    last_level,    \* the level last handed to _on_level_update, -1 before the first
    led_pc,        \* per thread: the statement of the LED code it is at, or "idle"
    led_cur,       \* per thread: the local `current` of _flash
    led_new,       \* per thread: the id self.after(...) just returned
    led_arg,       \* per thread: the job id evaluated for after_cancel
    \* the event bus
    subs,          \* self._subs: per topic the handlers subscribed, in order
    pub_pc,        \* "idle" | "loop": whether a publish is running
    pub_topic,     \* topic of the current (or last) publish
    pub_payload,   \* its payload
    pub_list,      \* the copy list(self._subs.get(topic, [])) it made
    pub_idx,       \* position of its loop in the list it runs over
    pub_calls,     \* the handler calls it made, in order, with their outcomes
    pub_result,    \* "none" | "returned" | "raised": how it ended
    pub_before,    \* the handlers subscribed to its topic when it began
    \* the calls seen one line access at a time
    at,            \* position inside the call: "idle" | "press" | "release" |
                   \* "read" | "test" | "drive" | "update" | "write"
    wr,            \* line writes of the current detent made so far (0..8)
    button_line,   \* level last driven on the BUTTON line
    io_log,        \* accesses to the button and indicator lines by this call
    seqs,          \* detent sequences this call has driven completely
    updates,       \* shadow updates this call has made
    committed,     \* <<center_freq, bandwidth>> when the call's last iteration began
    fault          \* failure that ended the last call: "encoder" | "bus" | "bypass",
                   \* or "none"

shadow == <<mode, center_freq, bandwidth>>
control == <<pc, target, toggle_ret>>
observers == <<req, modeBefore, startVal, arg, presses, readback, nsteps, dirs,
               prevReq, prevPresses>>
encoder == <<enc_lines, enc_trace, last_dir>>
aux == <<volume, bypass_state, bypass_line, spi_frames>>
poller == <<level_cb, stop_meter, poll_pc, poll_raw, poll_reads, poll_delivered,
            delivered_at_stop>>
policy == <<pol_param, pol_value, pol_step>>
cli == <<nraw>>
sliders == <<cf_slider, bw_slider, gui_stage>>
panel == <<switch_value, bypass_calls>>
led == <<led_flashing, led_job, led_color, timers, jobs_made, last_level,
         led_pc, led_cur, led_new, led_arg>>
bus == <<subs, pub_pc, pub_topic, pub_payload, pub_list, pub_idx, pub_calls,
         pub_result, pub_before>>
gui == <<sliders, panel, led, bus>>
fine == <<at, wr, button_line, io_log, seqs, updates, committed, fault>>
\* The callers' own state and the line-level view of a call.
surround == <<cli, gui, fine>>
\* What the convergence and mode logic never touches.
outside == <<aux, poller, policy, surround>>
vars == <<shadow, control, observers, encoder, aux, poller, policy, surround>>

(* ---------------------------------------------------------------------- *)
(* Pure helpers                                                            *)
(* ---------------------------------------------------------------------- *)
Max(a, b) == IF a >= b THEN a ELSE b
Min(a, b) == IF a <= b THEN a ELSE b
Abs(a) == IF a >= 0 THEN a ELSE -a

\* Variant of clamp that lets every value through.
clamp_identity(v) == v

\* max(200, min(3500, v))
clamp(v) == Max(MIN_HZ, Min(MAX_HZ, v))

\* Variant of center_step_size with the two step sizes exchanged.
center_step_size_swapped(cf) == IF cf < CF_THRESHOLD THEN CF_STEP_HIGH ELSE CF_STEP_LOW

\* Variant of center_step_size whose threshold belongs to the lower range.
center_step_size_inclusive(cf) == IF cf <= CF_THRESHOLD THEN CF_STEP_LOW ELSE CF_STEP_HIGH

\* step_size = 25 if self.center_freq < 2000 else 50
center_step_size(cf) == IF cf < CF_THRESHOLD THEN CF_STEP_LOW ELSE CF_STEP_HIGH

\* Variant of bandwidth_step_size whose thresholds belong to the lower range.
bandwidth_step_size_inclusive(bw) ==
    IF bw <= BW_THRESHOLD_LOW THEN BW_STEP_LOW
    ELSE IF bw <= BW_THRESHOLD_HIGH THEN BW_STEP_MID
    ELSE BW_STEP_HIGH

\* if bw < 400: 20 / elif bw < 700: 50 / else: 100
bandwidth_step_size(bw) ==
    IF bw < BW_THRESHOLD_LOW THEN BW_STEP_LOW
    ELSE IF bw < BW_THRESHOLD_HIGH THEN BW_STEP_MID
    ELSE BW_STEP_HIGH

sign(direction) == IF direction = "CW" THEN 1 ELSE -1

\* _update_center: the new self.center_freq
update_center(cf, direction, detents) ==
    clamp(cf + detents * center_step_size(cf) * sign(direction))

\* Variant of update_bandwidth that does not clamp the new value.
update_bandwidth_unclamped(bw, direction, detents) ==
    bw + detents * bandwidth_step_size(bw) * sign(direction)

\* _update_bandwidth: the new self.bandwidth
update_bandwidth(bw, direction, detents) ==
    clamp(bw + detents * bandwidth_step_size(bw) * sign(direction))

\* direction = "CW" if target > self.<value> else "CCW"
loop_direction(tgt, cur) == IF tgt > cur THEN "CW" ELSE "CCW"

\* Variant of GRAY_SEQ in binary counting order.
GRAY_SEQ_binary == << <<0, 0>>, <<0, 1>>, <<1, 0>>, <<1, 1>> >>

\* GRAY_SEQ: the four phase pairs of one CW detent.
GRAY_SEQ == << <<0, 0>>, <<0, 1>>, <<1, 1>>, <<1, 0>> >>

\* list(reversed(seq))
reversed(seq) == [i \in 1..Len(seq) |-> seq[Len(seq) + 1 - i]]

\* Variant of step_once that plays the CW sequence in both directions.
step_once_unreversed(direction) == GRAY_SEQ

\* step_once(direction): the (a, b) pairs written to ENC_A, ENC_B, in order.
step_once(direction) ==
    IF direction = "CW" THEN GRAY_SEQ ELSE reversed(GRAY_SEQ)

\* for _ in range(detents): self.step_once(direction)
RECURSIVE emit_detents(_, _)
emit_detents(direction, detents) ==
    IF detents <= 0 THEN <<>>
    ELSE step_once(direction) \o emit_detents(direction, detents - 1)

\* Variant of needs_toggle that presses on every request.
needs_toggle_always(m, wanted) == TRUE

\* Variant of needs_toggle with the comparison inverted.
needs_toggle_inverted(m, wanted) == m = wanted

\* if self.mode != "<wanted>": self.toggle_mode()
needs_toggle(m, wanted) == m # wanted

\* Variant of mode_after_readback that assumes the press toggled the mode
\* when the indicators are not readable.
mode_after_readback_blind(cf, bw, old) ==
    IF cf = 1 /\ bw = 0 THEN "centre"
    ELSE IF cf = 0 /\ bw = 1 THEN "bandwidth"
    ELSE IF old = "centre" THEN "bandwidth" ELSE "centre"

\* Variant of mode_after_readback with the two indicator lines exchanged.
mode_after_readback_swapped(cf, bw, old) ==
    IF cf = 1 /\ bw = 0 THEN "bandwidth"
    ELSE IF cf = 0 /\ bw = 1 THEN "centre"
    ELSE old

\* toggle_mode: self.mode after the indicator lines read (cf, bw)
mode_after_readback(cf, bw, old) ==
    IF cf = 1 /\ bw = 0 THEN "centre"
    ELSE IF cf = 0 /\ bw = 1 THEN "bandwidth"
    ELSE old

\* toggle_mode: what the caller gets back.  The invalid branch ends in a
\* bare `return`, the valid branches fall off the end of the function:
\* both hand back None and neither raises.
toggle_return(cf, bw) ==
    IF (cf = 1 /\ bw = 0) \/ (cf = 0 /\ bw = 1)
    THEN [value |-> "None", raised |-> FALSE]
    ELSE [value |-> "None", raised |-> FALSE]

(* ---------------------------------------------------------------------- *)
(* Initial state: RPiHW.__init__                                           *)
(* ---------------------------------------------------------------------- *)
InitCore ==
    /\ mode = "centre"
    /\ center_freq = INIT_CENTER_FREQ
    /\ bandwidth = INIT_BANDWIDTH
    /\ pc = "idle"
    /\ target = 0
    /\ toggle_ret = [value |-> "unset", raised |-> FALSE]
    /\ req = "none"
    /\ modeBefore = "centre"
    /\ startVal = 0
    /\ arg = 0
    /\ presses = 0
    /\ readback = <<>>
    /\ nsteps = 0
    /\ dirs = {}
    /\ prevReq = "none"
    /\ prevPresses = 0
    /\ enc_lines = <<0, 0>>
    /\ enc_trace = <<>>
    /\ last_dir = "none"

InitAux ==
    /\ volume = INIT_VOLUME
    /\ bypass_state = FALSE
    /\ bypass_line = GPIO_LOW
    /\ spi_frames = <<>>

InitPoller ==
    /\ level_cb = "none"
    /\ stop_meter = FALSE
    /\ poll_pc = [i \in 1..MaxPollers |-> "unstarted"]
    /\ poll_raw = [i \in 1..MaxPollers |-> 0]
    /\ poll_reads = [i \in 1..MaxPollers |-> <<>>]
    /\ poll_delivered = [i \in 1..MaxPollers |-> <<>>]
    /\ delivered_at_stop = [i \in 1..MaxPollers |-> 0]

\* The command loop has read nothing; the sliders hold the GUI defaults and
\* nothing has been pushed yet; the switch has been set(False), the LED is
\* dim and not flashing; no call is in progress, the BUTTON line is at its
\* initial HIGH.
InitSurround ==
    /\ nraw = 0
    /\ cf_slider = GUI_INIT_CF
    /\ bw_slider = GUI_INIT_BW
    /\ gui_stage = "push_cf"
    /\ switch_value = FALSE
    /\ bypass_calls = <<>>
    /\ led_flashing = FALSE
    /\ led_job = 0
    /\ led_color = "dim"
    /\ timers = {}
    /\ jobs_made = 0
    /\ last_level = -1
    /\ led_pc = [t \in Threads |-> "idle"]
    /\ led_cur = [t \in Threads |-> "dim"]
    /\ led_new = [t \in Threads |-> 0]
    /\ led_arg = [t \in Threads |-> 0]
    /\ subs = [topic \in Topics |-> <<>>]
    /\ pub_pc = "idle"
    /\ pub_topic = "bypass"
    /\ pub_payload = 0
    /\ pub_list = <<>>
    /\ pub_idx = 0
    /\ pub_calls = <<>>
    /\ pub_result = "none"
    /\ pub_before = <<>>
    /\ at = "idle"
    /\ wr = 0
    /\ button_line = GPIO_HIGH
    /\ io_log = <<>>
    /\ seqs = 0
    /\ updates = 0
    /\ committed = <<INIT_CENTER_FREQ, INIT_BANDWIDTH>>
    /\ fault = "none"

Init ==
    /\ InitCore
    /\ InitAux
    /\ InitPoller
    /\ InitSurround
    /\ pol_param = "none"
    /\ pol_value = 0
    /\ pol_step = 0

(* ---------------------------------------------------------------------- *)
(* Operations                                                              *)
(* ---------------------------------------------------------------------- *)
\* toggle_mode(): one button press (LOW, hold, HIGH), a settle delay, then
\* the two indicator lines are read as (cf, bw) and self.mode is set from
\* them; an invalid readback only prints a warning.
toggle_mode(cf, bw) ==
    /\ presses' = 1
    /\ readback' = <<cf, bw>>
    /\ mode' = mode_after_readback(cf, bw, mode)
    /\ toggle_ret' = toggle_return(cf, bw)

\* The mode step at the head of set_center_frequency / set_bandwidth:
\* toggle_mode() when the shadow mode is not the wanted one; its result is
\* not looked at.
mode_step(wanted, cf, bw) ==
    IF needs_toggle(mode, wanted)
    THEN toggle_mode(cf, bw)
    ELSE /\ presses' = 0
         /\ readback' = <<>>
         /\ UNCHANGED <<mode, toggle_ret>>

\* Entering a call: what the observers record.
enter_call(wanted, start, a) ==
    /\ req' = wanted
    /\ modeBefore' = mode
    /\ startVal' = start
    /\ arg' = a
    /\ nsteps' = 0
    /\ dirs' = {}
    /\ prevReq' = req
    /\ prevPresses' = presses

\* Body of step(direction, detents): the detents are emitted on the encoder
\* lines, then the shadow value of whichever parameter self.mode names is
\* updated.
step_effect(direction, detents) ==
    /\ enc_trace' = emit_detents(direction, detents)
    /\ enc_lines' = IF enc_trace' = <<>> THEN enc_lines
                    ELSE enc_trace'[Len(enc_trace')]
    /\ last_dir' = direction
    /\ IF mode = "centre"
       THEN /\ center_freq' = update_center(center_freq, direction, detents)
            /\ UNCHANGED bandwidth
       ELSE /\ bandwidth' = update_bandwidth(bandwidth, direction, detents)
            /\ UNCHANGED center_freq

\* step(direction, detents=1) as the convergence loops call it: the call's
\* detents and directions are counted.
step(direction, detents) ==
    /\ step_effect(direction, detents)
    /\ nsteps' = Min(nsteps + detents, StepCap)
    /\ dirs' = dirs \cup {direction}

\* set_center_frequency(t), up to the first test of the while loop: what it
\* does to the driver.
set_center_frequency_call(t, cf, bw) ==
    /\ pc = "idle"
    /\ target' = clamp(t)
    /\ mode_step("centre", cf, bw)
    /\ enter_call("centre", center_freq, t)
    /\ pc' = "cf_loop"
    /\ UNCHANGED <<center_freq, bandwidth, encoder>>

\* set_center_frequency(t) called on the driver directly.
set_center_frequency(t, cf, bw) ==
    /\ set_center_frequency_call(t, cf, bw)
    /\ UNCHANGED outside

\* One iteration of `while self.center_freq != target`.
set_center_frequency_loop ==
    /\ pc = "cf_loop"
    /\ center_freq # target
    /\ step(loop_direction(target, center_freq), 1)
    /\ UNCHANGED <<mode, control, req, modeBefore, startVal, arg, presses,
                   readback, prevReq, prevPresses, outside>>

\* The loop test fails: set_center_frequency returns.
set_center_frequency_return ==
    /\ pc = "cf_loop"
    /\ center_freq = target
    /\ pc' = "idle"
    /\ UNCHANGED <<shadow, target, toggle_ret, observers, encoder, outside>>

\* set_bandwidth(t), up to the first test of the while loop: what it does to
\* the driver.
set_bandwidth_call(t, cf, bw) ==
    /\ pc = "idle"
    /\ target' = clamp(t)
    /\ mode_step("bandwidth", cf, bw)
    /\ enter_call("bandwidth", bandwidth, t)
    /\ pc' = "bw_loop"
    /\ UNCHANGED <<center_freq, bandwidth, encoder>>

\* set_bandwidth(t) called on the driver directly.
set_bandwidth(t, cf, bw) ==
    /\ set_bandwidth_call(t, cf, bw)
    /\ UNCHANGED outside

\* One iteration of `while self.bandwidth != target`.
set_bandwidth_loop ==
    /\ pc = "bw_loop"
    /\ bandwidth # target
    /\ step(loop_direction(target, bandwidth), 1)
    /\ UNCHANGED <<mode, control, req, modeBefore, startVal, arg, presses,
                   readback, prevReq, prevPresses, outside>>

\* The loop test fails: set_bandwidth returns.
set_bandwidth_return ==
    /\ pc = "bw_loop"
    /\ bandwidth = target
    /\ pc' = "idle"
    /\ UNCHANGED <<shadow, target, toggle_ret, observers, encoder, outside>>

\* toggle_mode() called on its own (the command loop's `toggle`).
cli_toggle(cf, bw) ==
    /\ pc = "idle"
    /\ toggle_mode(cf, bw)
    /\ enter_call("toggle", 0, 0)
    /\ UNCHANGED <<center_freq, bandwidth, pc, target, encoder, outside>>

(* ---------------------------------------------------------------------- *)
(* Auxiliary controls                                                      *)
(* ---------------------------------------------------------------------- *)
\* Variant of wiper_clamp that only caps the value from above.
wiper_clamp_upper_only(value) == Min(WIPER_MAX, value)

\* value = max(0, min(255, value))
wiper_clamp(value) == Max(WIPER_MIN, Min(WIPER_MAX, value))

\* Variant of set_wiper that keeps the unclamped argument as the volume.
set_wiper_keeps_argument(value) ==
    /\ spi_frames' = << <<WIPER_CMD, wiper_clamp(value)>> >>
    /\ volume' = value

\* set_wiper(value): one xfer2([0x11, value]) of the clamped value, then
\* self.volume = value.
set_wiper(value) ==
    /\ spi_frames' = << <<WIPER_CMD, wiper_clamp(value)>> >>
    /\ volume' = wiper_clamp(value)

\* Variant of bypass_level for an active-low line.
bypass_level_active_low(on) == IF on THEN GPIO_LOW ELSE GPIO_HIGH

\* GPIO.HIGH if on else GPIO.LOW
bypass_level(on) == IF on THEN GPIO_HIGH ELSE GPIO_LOW

\* What the observers record when a call that has no mode step and no loop
\* is entered: it presses nothing, reads nothing and issues no detent.
enter_aux_call(name, start, a) ==
    /\ enter_call(name, start, a)
    /\ presses' = 0
    /\ readback' = <<>>

\* Variant of drive_bypass that drives ENC_A instead of the BYPASS line.
drive_bypass_wrong_pin(on) ==
    /\ bypass_state' = on
    /\ bypass_line' = bypass_line
    /\ enc_lines' = <<bypass_level(on), enc_lines[2]>>
    /\ UNCHANGED <<enc_trace, last_dir>>

\* Body of set_bypass(on): self.bypass_state = on, then the BYPASS line is
\* driven.
drive_bypass(on) ==
    /\ bypass_state' = on
    /\ bypass_line' = bypass_level(on)
    /\ UNCHANGED encoder

\* set_bypass(on)
set_bypass(on) ==
    /\ pc = "idle"
    /\ drive_bypass(on)
    /\ enter_aux_call("bypass", bypass_line, IF on THEN 1 ELSE 0)
    /\ UNCHANGED <<shadow, control, volume, spi_frames, poller, policy, surround>>

\* toggle_bypass(): set_bypass(not self.bypass_state)
toggle_bypass ==
    /\ pc = "idle"
    /\ drive_bypass(~ bypass_state)
    /\ enter_aux_call("toggle_bypass", bypass_line, IF bypass_state THEN 0 ELSE 1)
    /\ UNCHANGED <<shadow, control, volume, spi_frames, poller, policy, surround>>

\* set_volume(value): self.set_wiper(value)
set_volume(value) ==
    /\ pc = "idle"
    /\ set_wiper(value)
    /\ enter_aux_call("volume", volume, value)
    /\ UNCHANGED <<shadow, control, encoder, bypass_state, bypass_line,
                   poller, policy, surround>>

\* The auxiliary controls next to the mode and convergence calls.
NextAux ==
    \/ \E v \in VolumeArgs : set_volume(v)
    \/ \E on \in BOOLEAN : set_bypass(on)
    \/ toggle_bypass
    \/ \E t \in AuxTargets, cf \in Levels, bw \in Levels : set_center_frequency(t, cf, bw)
    \/ set_center_frequency_loop
    \/ set_center_frequency_return
    \/ \E t \in AuxTargets, cf \in Levels, bw \in Levels : set_bandwidth(t, cf, bw)
    \/ set_bandwidth_loop
    \/ set_bandwidth_return
    \/ \E cf \in Levels, bw \in Levels : cli_toggle(cf, bw)

SpecAux == Init /\ [][NextAux]_vars

(* ---------------------------------------------------------------------- *)
(* The step-size policy on its own                                         *)
(* ---------------------------------------------------------------------- *)
\* Any parameter, any current value of the domain, policy not yet asked.
InitPolicy ==
    /\ InitCore
    /\ InitAux
    /\ InitPoller
    /\ InitSurround
    /\ pol_param \in {"center", "bandwidth"}
    /\ pol_value \in PolicyValues
    /\ pol_step = 0

\* The step size _update_center takes for the current value.
policy_center ==
    /\ pol_param = "center"
    /\ pol_step = 0
    /\ pol_step' = center_step_size(pol_value)
    /\ UNCHANGED <<shadow, control, observers, encoder, aux, poller,
                   pol_param, pol_value, surround>>

\* The step size _update_bandwidth takes for the current value.
policy_bandwidth ==
    /\ pol_param = "bandwidth"
    /\ pol_step = 0
    /\ pol_step' = bandwidth_step_size(pol_value)
    /\ UNCHANGED <<shadow, control, observers, encoder, aux, poller,
                   pol_param, pol_value, surround>>

NextPolicy ==
    \/ policy_center
    \/ policy_bandwidth

SpecPolicy == InitPolicy /\ [][NextPolicy]_vars

(* ---------------------------------------------------------------------- *)
(* Overload poller                                                         *)
(* ---------------------------------------------------------------------- *)
\* Variant of level_pct for an active-low indicator.
level_pct_active_low(raw) == IF raw = GPIO_HIGH THEN LEVEL_CLEAR ELSE LEVEL_OVERLOAD

\* level_pct = 1.0 if raw == GPIO.HIGH else 0.0
level_pct(raw) == IF raw = GPIO_HIGH THEN LEVEL_OVERLOAD ELSE LEVEL_CLEAR

\* Poller threads started so far.
started == {i \in 1..MaxPollers : poll_pc[i] # "unstarted"}

\* set_level_callback(cb): stores the observer, clears the stop flag and
\* starts one more polling thread.
set_level_callback(cb) ==
    /\ pc = "idle"
    /\ Cardinality(started) < MaxPollers
    /\ level_cb' = cb
    /\ stop_meter' = FALSE
    /\ poll_pc' = [poll_pc EXCEPT ![Cardinality(started) + 1] = "test"]
    /\ UNCHANGED delivered_at_stop
    /\ UNCHANGED <<shadow, control, observers, encoder, aux, policy, surround,
                   poll_raw, poll_reads, poll_delivered>>

\* stop(): self._stop_meter = True
stop ==
    /\ pc = "idle"
    /\ stop_meter' = TRUE
    /\ delivered_at_stop' = [i \in 1..MaxPollers |-> Len(poll_delivered[i])]
    /\ UNCHANGED <<shadow, control, observers, encoder, aux, policy, surround,
                   level_cb, poll_pc, poll_raw, poll_reads, poll_delivered>>

\* Variant of poll_test that goes on whatever the stop flag says.
poll_test_ignores_stop(i) ==
    /\ poll_pc[i] = "test"
    /\ poll_pc' = [poll_pc EXCEPT ![i] = "read"]
    /\ UNCHANGED <<shadow, control, observers, encoder, aux, policy, surround,
                   level_cb, stop_meter, poll_raw, poll_reads, poll_delivered,
                   delivered_at_stop>>

\* _poll_overload_led, the loop test: while not self._stop_meter
poll_test(i) ==
    /\ poll_pc[i] = "test"
    /\ poll_pc' = [poll_pc EXCEPT ![i] = IF stop_meter THEN "done" ELSE "read"]
    /\ UNCHANGED delivered_at_stop
    /\ UNCHANGED <<shadow, control, observers, encoder, aux, policy, surround,
                   level_cb, stop_meter, poll_raw, poll_reads, poll_delivered>>

\* Reads of the overload line made so far by threads 1..n.
RECURSIVE reads_made(_)
reads_made(n) == IF n = 0 THEN 0 ELSE Len(poll_reads[n]) + reads_made(n - 1)

\* Variant of poll_read that samples the CF indicator line as well.
poll_read_mode_lines(i, raw) ==
    /\ poll_pc[i] = "read"
    /\ reads_made(MaxPollers) < MaxTicks
    /\ poll_raw' = [poll_raw EXCEPT ![i] = raw]
    /\ poll_reads' = [poll_reads EXCEPT ![i] = Append(@, raw)]
    /\ poll_pc' = [poll_pc EXCEPT ![i] = "deliver"]
    /\ UNCHANGED delivered_at_stop
    /\ io_log' = Append(io_log, "READ_CF")
    /\ UNCHANGED <<shadow, control, observers, encoder, aux, policy, cli, gui,
                   at, wr, button_line, seqs, updates, committed, fault,
                   level_cb, stop_meter, poll_delivered>>

\* _poll_overload_led: raw = GPIO.input(LED_PIN); the line reads `raw`.
poll_read(i, raw) ==
    /\ poll_pc[i] = "read"
    /\ reads_made(MaxPollers) < MaxTicks
    /\ poll_raw' = [poll_raw EXCEPT ![i] = raw]
    /\ poll_reads' = [poll_reads EXCEPT ![i] = Append(@, raw)]
    /\ poll_pc' = [poll_pc EXCEPT ![i] = "deliver"]
    /\ UNCHANGED delivered_at_stop
    /\ UNCHANGED <<shadow, control, observers, encoder, aux, policy, surround,
                   level_cb, stop_meter, poll_delivered>>

\* _poll_overload_led: the level is computed from raw and, if an observer is
\* registered, handed to it; then the thread sleeps and tests again.
poll_deliver(i) ==
    /\ poll_pc[i] = "deliver"
    /\ poll_delivered' =
          IF level_cb # "none"
          THEN [poll_delivered EXCEPT ![i] =
                  Append(@, [to |-> level_cb, raw |-> poll_raw[i],
                             level |-> level_pct(poll_raw[i])])]
          ELSE poll_delivered
    /\ poll_pc' = [poll_pc EXCEPT ![i] = "test"]
    /\ UNCHANGED delivered_at_stop
    /\ UNCHANGED <<shadow, control, observers, encoder, aux, policy, surround,
                   level_cb, stop_meter, poll_raw, poll_reads>>

NextPoller ==
    \/ \E cb \in Observers : set_level_callback(cb)
    \/ stop
    \/ \E i \in 1..MaxPollers : poll_test(i)
    \/ \E i \in 1..MaxPollers, raw \in Levels : poll_read(i, raw)
    \/ \E i \in 1..MaxPollers : poll_deliver(i)

SpecPoller == Init /\ [][NextPoller]_vars

\* Every started poller thread is scheduled again and again, and a read of
\* the line or a call of the observer that has begun comes back.
PollerFairness ==
    \A i \in 1..MaxPollers :
        /\ WF_vars(poll_test(i))
        /\ WF_vars(\E raw \in Levels : poll_read(i, raw))
        /\ WF_vars(poll_deliver(i))

\* The poller with the one observer DSPGui registers.
NextStop ==
    \/ set_level_callback("obs1")
    \/ stop
    \/ \E i \in 1..MaxPollers : poll_test(i)
    \/ \E i \in 1..MaxPollers, raw \in Levels : poll_read(i, raw)
    \/ \E i \in 1..MaxPollers : poll_deliver(i)

SpecPollerFair == Init /\ [][NextStop]_vars /\ PollerFairness

Next ==
    \/ \E t \in Targets, cf \in Levels, bw \in Levels : set_center_frequency(t, cf, bw)
    \/ set_center_frequency_loop
    \/ set_center_frequency_return
    \/ \E t \in Targets, cf \in Levels, bw \in Levels : set_bandwidth(t, cf, bw)
    \/ set_bandwidth_loop
    \/ set_bandwidth_return
    \/ \E cf \in Levels, bw \in Levels : cli_toggle(cf, bw)

Spec == Init /\ [][Next]_vars

(* ---------------------------------------------------------------------- *)
(* The command loop's raw steps                                            *)
(* ---------------------------------------------------------------------- *)
\* Directions and detent counts the command loop's `step` hands over.
Directions == {"CW", "CCW"}
MaxDetents == 10
MaxRawSteps == 3

\* ctrl.step(direction, detents) called on its own (the command loop's
\* `step`), with detents >= 1.
cli_step(direction, detents) ==
    /\ pc = "idle"
    /\ nraw < MaxRawSteps
    /\ nraw' = nraw + 1
    /\ step_effect(direction, detents)
    /\ enter_aux_call("step", IF mode = "centre" THEN center_freq ELSE bandwidth,
                      detents)
    /\ UNCHANGED <<mode, control, aux, poller, policy, gui, fine>>

NextStep ==
    \/ \E d \in Directions, n \in 1..MaxDetents : cli_step(d, n)
    \/ \E cf \in Levels, bw \in Levels : cli_toggle(cf, bw)

SpecStep == Init /\ [][NextStep]_vars

(* ---------------------------------------------------------------------- *)
(* The GUI's bandwidth slider on top of the driver                         *)
(* ---------------------------------------------------------------------- *)
SLIDER_FROM == 200
SLIDER_TO == 3500

\* bw_step(v): the step the bandwidth slider moves and snaps by.
bw_step(v) == IF v < 400 THEN 20 ELSE IF v < 700 THEN 50 ELSE 100

\* round(v / step) of Python 3 for integers v >= 0 and step > 0: the nearest
\* integer, a half going to the even neighbour.
py_round_div(v, unit) ==
    LET q == v \div unit
        r == v % unit
    IN  IF 2 * r < unit THEN q
        ELSE IF 2 * r > unit THEN q + 1
        ELSE IF q % 2 = 0 THEN q ELSE q + 1

\* ValueSlider._nudge(delta) on a slider showing v: one step (of the value
\* before the move) in the sign of delta, held inside the slider's range,
\* then snapped to the nearest multiple of that step.
nudge(v, delta) ==
    LET unit == bw_step(v)
        moved == Max(SLIDER_FROM, Min(SLIDER_TO, v + (IF delta > 0 THEN 1 ELSE -1) * unit))
    IN  py_round_div(moved, unit) * unit

\* Arrow buttons: _nudge(-self.step) and _nudge(+self.step), self.step = 25.
NudgeDeltas == {-25, 25}

\* DSPGui.__init__, first push: self._apply_cf(self.cf_var.get())
gui_push_cf(cf, bw) ==
    /\ gui_stage = "push_cf"
    /\ set_center_frequency_call(cf_slider, cf, bw)
    /\ gui_stage' = "push_bw"
    /\ UNCHANGED <<cf_slider, bw_slider, panel, led, bus, aux, poller, policy,
                   cli, fine>>

\* DSPGui.__init__, second push: self._apply_bw(self.bw_var.get()).  (The
\* pushes of volume and bypass that follow do not touch mode, center_freq
\* or bandwidth.)
gui_push_bw(cf, bw) ==
    /\ gui_stage = "push_bw"
    /\ set_bandwidth_call(bw_slider, cf, bw)
    /\ gui_stage' = "ready"
    /\ UNCHANGED <<cf_slider, bw_slider, panel, led, bus, aux, poller, policy,
                   cli, fine>>

\* An arrow of the bandwidth slider is pressed: _nudge sets the variable and
\* on_release applies it, self._apply_bw(self.bw_var.get()).
bw_nudge(delta, cf, bw) ==
    /\ gui_stage = "ready"
    /\ bw_slider' = nudge(bw_slider, delta)
    /\ set_bandwidth_call(bw_slider', cf, bw)
    /\ UNCHANGED <<cf_slider, gui_stage, panel, led, bus, aux, poller, policy,
                   cli, fine>>

NextGui ==
    \/ \E cf \in Levels, bw \in Levels : gui_push_cf(cf, bw)
    \/ \E cf \in Levels, bw \in Levels : gui_push_bw(cf, bw)
    \/ \E delta \in NudgeDeltas, cf \in Levels, bw \in Levels : bw_nudge(delta, cf, bw)
    \/ set_center_frequency_loop
    \/ set_center_frequency_return
    \/ set_bandwidth_loop
    \/ set_bandwidth_return

SpecGui == Init /\ [][NextGui]_vars

(* ---------------------------------------------------------------------- *)
(* The GUI's DSP/BYPASS switch                                             *)
(* ---------------------------------------------------------------------- *)
\* _apply_bypass(on): self.hw.set_bypass(on).  (The bus.publish("bypass", on)
\* that follows finds no handler: nothing in the sources subscribes.)
apply_bypass(on) ==
    /\ drive_bypass(on)
    /\ enter_aux_call("bypass", bypass_line, IF on THEN 1 ELSE 0)
    /\ bypass_calls' = Append(bypass_calls, on)

\* DSPGui.__init__, last push: self._apply_bypass(False)
gui_push_bypass ==
    /\ gui_stage = "ready"
    /\ pc = "idle"
    /\ bypass_calls = <<>>
    /\ apply_bypass(FALSE)
    /\ UNCHANGED <<shadow, control, volume, spi_frames, poller, policy, cli,
                   fine, sliders, switch_value, led, bus>>

\* The user clicks the switch.  ToggleSwitch.toggle sets the value to
\* new_state = not self.get() and calls on_toggle(new_state), which is
\* _on_dsp_toggled(dsp_on): self._apply_bypass(not dsp_on).
switch_toggle ==
    /\ bypass_calls # <<>>
    /\ pc = "idle"
    /\ Len(bypass_calls) <= MaxToggles
    /\ switch_value' = ~ switch_value
    /\ apply_bypass(~ switch_value')
    /\ UNCHANGED <<shadow, control, volume, spi_frames, poller, policy, cli,
                   fine, sliders, led, bus>>

\* The constructor's pushes, then clicks on the switch.
NextPanel ==
    \/ \E cf \in Levels, bw \in Levels : gui_push_cf(cf, bw)
    \/ \E cf \in Levels, bw \in Levels : gui_push_bw(cf, bw)
    \/ set_center_frequency_loop
    \/ set_center_frequency_return
    \/ set_bandwidth_loop
    \/ set_bandwidth_return
    \/ gui_push_bypass
    \/ switch_toggle

SpecPanel == Init /\ [][NextPanel]_vars

(* ---------------------------------------------------------------------- *)
(* The GUI's overload LED                                                  *)
(* ---------------------------------------------------------------------- *)
\* The LED code is followed one statement at a time.  Thread t runs
\* _on_level_update (and with it start_flash or stop_flash); Tk's main
\* thread runs _flash when a timer job fires.  A Tk call made by another
\* thread than the main one is carried out by the main thread's event
\* loop, that is while the main thread is inside no callback.

\* What the LED code never touches.
led_outside == <<shadow, control, observers, encoder, aux, poller, policy,
                 cli, fine, sliders, panel, bus>>

\* Thread t goes on at `label`.
led_goto(t, label) == led_pc' = [led_pc EXCEPT ![t] = label]

\* Thread t can have a Tk call carried out.
tk_ready(t) == t = "main" \/ led_pc["main"] = "idle"

\* _on_level_update(level_pct) entered on thread t: overload is computed
\* and set_overload chooses start_flash or stop_flash.
on_level_update(t, level) ==
    /\ led_pc[t] = "idle"
    /\ last_level' = level
    /\ led_goto(t, IF level >= OVERLOAD_THRESHOLD THEN "start_test" ELSE "stop_clear")
    /\ UNCHANGED <<led_outside, led_flashing, led_job, led_color, timers,
                   jobs_made, led_cur, led_new, led_arg>>

\* start_flash: if not self._flashing
start_flash_test(t) ==
    /\ led_pc[t] = "start_test"
    /\ led_goto(t, IF led_flashing THEN "idle" ELSE "start_set")
    /\ UNCHANGED <<led_outside, led_flashing, led_job, led_color, timers,
                   jobs_made, last_level, led_cur, led_new, led_arg>>

\* start_flash: self._flashing = True; self._flash(interval) is entered
start_flash_set(t) ==
    /\ led_pc[t] = "start_set"
    /\ led_flashing' = TRUE
    /\ led_goto(t, "flash_test")
    /\ UNCHANGED <<led_outside, led_job, led_color, timers, jobs_made,
                   last_level, led_cur, led_new, led_arg>>

\* _flash: if self._flashing
flash_test(t) ==
    /\ led_pc[t] = "flash_test"
    /\ led_goto(t, IF led_flashing THEN "flash_read" ELSE "idle")
    /\ UNCHANGED <<led_outside, led_flashing, led_job, led_color, timers,
                   jobs_made, last_level, led_cur, led_new, led_arg>>

\* _flash: current = self.itemcget(self._oval, "fill")
flash_read(t) ==
    /\ led_pc[t] = "flash_read"
    /\ tk_ready(t)
    /\ led_cur' = [led_cur EXCEPT ![t] = led_color]
    /\ led_goto(t, "flash_color")
    /\ UNCHANGED <<led_outside, led_flashing, led_job, led_color, timers,
                   jobs_made, last_level, led_new, led_arg>>

\* _flash: self._set_color(current != "#ff2b2b")
flash_color(t) ==
    /\ led_pc[t] = "flash_color"
    /\ tk_ready(t)
    /\ led_color' = IF led_cur[t] # "bright" THEN "bright" ELSE "dim"
    /\ led_goto(t, "flash_after")
    /\ UNCHANGED <<led_outside, led_flashing, led_job, timers, jobs_made,
                   last_level, led_cur, led_new, led_arg>>

\* _flash: self.after(interval, ...) creates a timer job and returns its id
flash_after(t) ==
    /\ led_pc[t] = "flash_after"
    /\ tk_ready(t)
    /\ jobs_made < MaxJobs
    /\ jobs_made' = jobs_made + 1
    /\ timers' = timers \cup {jobs_made + 1}
    /\ led_new' = [led_new EXCEPT ![t] = jobs_made + 1]
    /\ led_goto(t, "flash_store")
    /\ UNCHANGED <<led_outside, led_flashing, led_job, led_color, last_level,
                   led_cur, led_arg>>

\* _flash: self._job = <the id returned>
flash_store(t) ==
    /\ led_pc[t] = "flash_store"
    /\ led_job' = led_new[t]
    /\ led_goto(t, "idle")
    /\ UNCHANGED <<led_outside, led_flashing, led_color, timers, jobs_made,
                   last_level, led_cur, led_new, led_arg>>

\* stop_flash: self._flashing = False
stop_flash_clear(t) ==
    /\ led_pc[t] = "stop_clear"
    /\ led_flashing' = FALSE
    /\ led_goto(t, "stop_test")
    /\ UNCHANGED <<led_outside, led_job, led_color, timers, jobs_made,
                   last_level, led_cur, led_new, led_arg>>

\* stop_flash: if self._job
stop_flash_test(t) ==
    /\ led_pc[t] = "stop_test"
    /\ led_goto(t, IF led_job # 0 THEN "stop_read" ELSE "stop_dim")
    /\ UNCHANGED <<led_outside, led_flashing, led_job, led_color, timers,
                   jobs_made, last_level, led_cur, led_new, led_arg>>

\* stop_flash: the argument self._job of after_cancel is evaluated
stop_flash_read(t) ==
    /\ led_pc[t] = "stop_read"
    /\ led_arg' = [led_arg EXCEPT ![t] = led_job]
    /\ led_goto(t, "stop_cancel")
    /\ UNCHANGED <<led_outside, led_flashing, led_job, led_color, timers,
                   jobs_made, last_level, led_cur, led_new>>

\* Variant of stop_flash_cancel that leaves the timer job pending.
stop_flash_cancel_skipped(t) ==
    /\ led_pc[t] = "stop_cancel"
    /\ tk_ready(t)
    /\ led_goto(t, "stop_forget")
    /\ UNCHANGED <<led_outside, led_flashing, led_job, led_color, timers,
                   jobs_made, last_level, led_cur, led_new, led_arg>>

\* stop_flash: self.after_cancel(<that id>)
stop_flash_cancel(t) ==
    /\ led_pc[t] = "stop_cancel"
    /\ tk_ready(t)
    /\ timers' = timers \ {led_arg[t]}
    /\ led_goto(t, "stop_forget")
    /\ UNCHANGED <<led_outside, led_flashing, led_job, led_color, jobs_made,
                   last_level, led_cur, led_new, led_arg>>

\* stop_flash: self._job = None
stop_flash_forget(t) ==
    /\ led_pc[t] = "stop_forget"
    /\ led_job' = 0
    /\ led_goto(t, "stop_dim")
    /\ UNCHANGED <<led_outside, led_flashing, led_color, timers, jobs_made,
                   last_level, led_cur, led_new, led_arg>>

\* stop_flash: self._set_color(False)
stop_flash_dim(t) ==
    /\ led_pc[t] = "stop_dim"
    /\ tk_ready(t)
    /\ led_color' = "dim"
    /\ led_goto(t, "idle")
    /\ UNCHANGED <<led_outside, led_flashing, led_job, timers, jobs_made,
                   last_level, led_cur, led_new, led_arg>>

\* The interval of timer job j is over: the event loop takes the job off
\* its list and calls _flash(interval) on the main thread.
timer_fires(j) ==
    /\ led_pc["main"] = "idle"
    /\ j \in timers
    /\ timers' = timers \ {j}
    /\ led_goto("main", "flash_test")
    /\ UNCHANGED <<led_outside, led_flashing, led_job, led_color, jobs_made,
                   last_level, led_cur, led_new, led_arg>>

\* The statements of the LED code thread t can be at.
led_statement(t) ==
    \/ start_flash_test(t)
    \/ start_flash_set(t)
    \/ flash_test(t)
    \/ flash_read(t)
    \/ flash_color(t)
    \/ flash_after(t)
    \/ flash_store(t)
    \/ stop_flash_clear(t)
    \/ stop_flash_test(t)
    \/ stop_flash_read(t)
    \/ stop_flash_cancel(t)
    \/ stop_flash_forget(t)
    \/ stop_flash_dim(t)

\* All level updates are handled on the main thread, between timer jobs.
NextLedSeq ==
    \/ \E level \in GuiLevels : on_level_update("main", level)
    \/ led_statement("main")
    \/ \E j \in 1..MaxJobs : timer_fires(j)

SpecLedSeq == Init /\ [][NextLedSeq]_vars

\* The poller thread calls _on_level_update with the levels it computes
\* while the main thread runs the timer jobs.
NextLed ==
    \/ \E raw \in Levels : on_level_update("poller", level_pct(raw))
    \/ \E t \in Threads : led_statement(t)
    \/ \E j \in 1..MaxJobs : timer_fires(j)

SpecLed == Init /\ [][NextLed]_vars

(* ---------------------------------------------------------------------- *)
(* The event bus (eventbus.py)                                             *)
(* ---------------------------------------------------------------------- *)
\* What the bus never touches.
bus_outside == <<shadow, control, observers, encoder, aux, poller, policy,
                 cli, fine, sliders, panel, led>>

\* self._subs[topic].append(handler)
appended(topic, handler) == [subs EXCEPT ![topic] = Append(@, handler)]

\* subscribe(topic, handler), called while no publish is running.
subscribe(topic, handler) ==
    /\ pub_pc = "idle"
    /\ Len(subs[topic]) < MaxSubs
    /\ subs' = appended(topic, handler)
    /\ UNCHANGED <<bus_outside, pub_pc, pub_topic, pub_payload, pub_list,
                   pub_idx, pub_calls, pub_result, pub_before>>

\* publish(topic, payload) entered: list(self._subs.get(topic, [])) is made.
publish(topic, payload) ==
    /\ pub_pc = "idle"
    /\ pub_pc' = "loop"
    /\ pub_topic' = topic
    /\ pub_payload' = payload
    /\ pub_list' = subs[topic]
    /\ pub_before' = subs[topic]
    /\ pub_idx' = 1
    /\ pub_calls' = <<>>
    /\ pub_result' = "none"
    /\ UNCHANGED <<bus_outside, subs>>

\* Variant of iterated: the loop runs over the live list of the topic.
iterated_live == subs[pub_topic]

\* The list the for loop of publish runs over: the copy.
iterated == pub_list

\* Variant of publish_call without the try/except around the call.
publish_call_uncaught(outcome, other) ==
    /\ pub_pc = "loop"
    /\ pub_idx <= Len(iterated)
    /\ outcome = "subscribes" => Len(subs[pub_topic]) < MaxSubs
    /\ pub_calls' = Append(pub_calls, [handler |-> iterated[pub_idx],
                                       payload |-> pub_payload,
                                       outcome |-> outcome])
    /\ subs' = IF outcome = "subscribes" THEN appended(pub_topic, other) ELSE subs
    /\ IF outcome \in {"exits", "raises"}
       THEN pub_pc' = "idle" /\ pub_result' = "raised" /\ UNCHANGED pub_idx
       ELSE pub_idx' = pub_idx + 1 /\ UNCHANGED <<pub_pc, pub_result>>
    /\ UNCHANGED <<bus_outside, pub_topic, pub_payload, pub_list, pub_before>>

\* publish, one turn of the loop: h(payload) is called inside try/except
\* Exception.  An exception of class Exception is caught and printed and
\* the loop goes on; one outside that class leaves publish.  A handler may
\* subscribe `other` to the topic while it runs.
publish_call(outcome, other) ==
    /\ pub_pc = "loop"
    /\ pub_idx <= Len(iterated)
    /\ outcome = "subscribes" => Len(subs[pub_topic]) < MaxSubs
    /\ pub_calls' = Append(pub_calls, [handler |-> iterated[pub_idx],
                                       payload |-> pub_payload,
                                       outcome |-> outcome])
    /\ subs' = IF outcome = "subscribes" THEN appended(pub_topic, other) ELSE subs
    /\ IF outcome = "exits"
       THEN pub_pc' = "idle" /\ pub_result' = "raised" /\ UNCHANGED pub_idx
       ELSE pub_idx' = pub_idx + 1 /\ UNCHANGED <<pub_pc, pub_result>>
    /\ UNCHANGED <<bus_outside, pub_topic, pub_payload, pub_list, pub_before>>

\* publish: the loop is through its list; publish returns.
publish_return ==
    /\ pub_pc = "loop"
    /\ pub_idx > Len(iterated)
    /\ pub_pc' = "idle"
    /\ pub_result' = "returned"
    /\ UNCHANGED <<bus_outside, subs, pub_topic, pub_payload, pub_list,
                   pub_idx, pub_calls, pub_before>>

NextBus ==
    \/ \E topic \in Topics, handler \in Handlers : subscribe(topic, handler)
    \/ \E topic \in Topics, payload \in Payloads : publish(topic, payload)
    \/ \E outcome \in Outcomes, other \in Handlers : publish_call(outcome, other)
    \/ publish_return

SpecBus == Init /\ [][NextBus]_vars

(* ---------------------------------------------------------------------- *)
(* The calls one line access at a time                                     *)
(* ---------------------------------------------------------------------- *)
\* Targets of the calls followed line by line.
SeqTargets == {1450, 1550, 2300}

\* GPIO.output calls of one step_once: ENC_A and ENC_B for each phase pair.
LINE_WRITES == 2 * Len(GRAY_SEQ)

\* The loop a call for `wanted` runs.
loop_of(wanted) == IF wanted = "centre" THEN "cf_loop" ELSE "bw_loop"

\* The shadow value the running call's loop tests.
tested_value == IF pc = "cf_loop" THEN center_freq ELSE bandwidth

\* set_center_frequency(t) / set_bandwidth(t) entered: the target is
\* clamped and the shadow mode compared with the wanted one.
line_enter(wanted, t) ==
    /\ pc = "idle"
    /\ at = "idle"
    /\ target' = clamp(t)
    /\ enter_call(wanted, IF wanted = "centre" THEN center_freq ELSE bandwidth, t)
    /\ presses' = 0
    /\ readback' = <<>>
    /\ io_log' = <<>>
    /\ seqs' = 0
    /\ updates' = 0
    /\ wr' = 0
    /\ committed' = <<center_freq, bandwidth>>
    /\ fault' = "none"
    /\ pc' = loop_of(wanted)
    /\ at' = IF needs_toggle(mode, wanted) THEN "press" ELSE "test"
    /\ UNCHANGED <<shadow, toggle_ret, encoder, button_line, aux, poller,
                   policy, cli, gui>>

\* toggle_mode: GPIO.output(self.BUTTON, GPIO.LOW)
line_press ==
    /\ at = "press"
    /\ button_line' = GPIO_LOW
    /\ io_log' = Append(io_log, "BUTTON_LOW")
    /\ presses' = presses + 1
    /\ at' = "release"
    /\ UNCHANGED <<shadow, control, req, modeBefore, startVal, arg, readback,
                   nsteps, dirs, prevReq, prevPresses, encoder, wr, seqs,
                   updates, committed, fault, aux, poller, policy, cli, gui>>

\* Variant of line_release that goes on without driving the line.
line_release_skipped ==
    /\ at = "release"
    /\ io_log' = Append(io_log, "BUTTON_HIGH")
    /\ at' = "read"
    /\ UNCHANGED <<shadow, control, observers, encoder, wr, seqs, updates,
                   button_line, committed, fault, aux, poller, policy, cli, gui>>

\* toggle_mode: time.sleep(0.1); GPIO.output(self.BUTTON, GPIO.HIGH)
line_release ==
    /\ at = "release"
    /\ button_line' = GPIO_HIGH
    /\ io_log' = Append(io_log, "BUTTON_HIGH")
    /\ at' = "read"
    /\ UNCHANGED <<shadow, control, observers, encoder, wr, seqs, updates,
                   committed, fault, aux, poller, policy, cli, gui>>

\* toggle_mode: time.sleep(0.05); cf = GPIO.input(LED_CF);
\* bw = GPIO.input(LED_BW); self.mode is set from them.
line_read(cf, bw) ==
    /\ at = "read"
    /\ io_log' = io_log \o <<"READ_CF", "READ_BW">>
    /\ readback' = <<cf, bw>>
    /\ mode' = mode_after_readback(cf, bw, mode)
    /\ toggle_ret' = toggle_return(cf, bw)
    /\ at' = "test"
    /\ UNCHANGED <<center_freq, bandwidth, pc, target, req, modeBefore, startVal,
                   arg, presses, nsteps, dirs, prevReq, prevPresses, encoder,
                   wr, button_line, seqs, updates, committed, fault, aux,
                   poller, policy, cli, gui>>

\* The loop test succeeds: the direction is chosen and step(direction, 1)
\* entered.
line_loop_test ==
    /\ at = "test"
    /\ tested_value # target
    /\ last_dir' = loop_direction(target, tested_value)
    /\ enc_trace' = <<>>
    /\ wr' = 0
    /\ committed' = <<center_freq, bandwidth>>
    /\ at' = "drive"
    /\ UNCHANGED <<shadow, control, observers, enc_lines, button_line, io_log,
                   seqs, updates, fault, aux, poller, policy, cli, gui>>

\* The loop test fails: the call returns.
line_return ==
    /\ at = "test"
    /\ tested_value = target
    /\ pc' = "idle"
    /\ at' = "idle"
    /\ UNCHANGED <<shadow, target, toggle_ret, observers, encoder, wr,
                   button_line, io_log, seqs, updates, committed, fault, aux,
                   poller, policy, cli, gui>>

\* The pair step_once is at after `done` line writes, and the levels on the
\* two lines once the next write is made.
pair_at(done) == step_once(last_dir)[(done \div 2) + 1]
lines_after_write(done) ==
    IF done % 2 = 0 THEN <<pair_at(done)[1], enc_lines[2]>>
    ELSE <<enc_lines[1], pair_at(done)[2]>>

\* Variant of line_drive that leaves the sequence after its third pair.
line_drive_cut_short ==
    /\ at = "drive"
    /\ wr < LINE_WRITES
    /\ enc_lines' = lines_after_write(wr)
    /\ enc_trace' = IF wr % 2 = 1 THEN Append(enc_trace, pair_at(wr)) ELSE enc_trace
    /\ wr' = wr + 1
    /\ seqs' = IF wr' = LINE_WRITES - 2 THEN Min(seqs + 1, StepCap) ELSE seqs
    /\ at' = IF wr' = LINE_WRITES - 2 THEN "update" ELSE "drive"
    /\ UNCHANGED <<shadow, control, observers, last_dir, button_line, io_log,
                   updates, committed, fault, aux, poller, policy, cli, gui>>

\* step_once: the next GPIO.output, on ENC_A or on ENC_B; after the last one
\* of the detent step() goes on to the shadow update.
line_drive ==
    /\ at = "drive"
    /\ wr < LINE_WRITES
    /\ enc_lines' = lines_after_write(wr)
    /\ enc_trace' = IF wr % 2 = 1 THEN Append(enc_trace, pair_at(wr)) ELSE enc_trace
    /\ wr' = wr + 1
    /\ seqs' = IF wr' = LINE_WRITES THEN Min(seqs + 1, StepCap) ELSE seqs
    /\ at' = IF wr' = LINE_WRITES THEN "update" ELSE "drive"
    /\ UNCHANGED <<shadow, control, observers, last_dir, button_line, io_log,
                   updates, committed, fault, aux, poller, policy, cli, gui>>

\* step: _update_center or _update_bandwidth for the detent just driven;
\* then the loop sleeps and tests again.
line_update ==
    /\ at = "update"
    /\ IF mode = "centre"
       THEN /\ center_freq' = update_center(center_freq, last_dir, 1)
            /\ UNCHANGED bandwidth
       ELSE /\ bandwidth' = update_bandwidth(bandwidth, last_dir, 1)
            /\ UNCHANGED center_freq
    /\ updates' = Min(updates + 1, StepCap)
    /\ nsteps' = Min(nsteps + 1, StepCap)
    /\ dirs' = dirs \cup {last_dir}
    /\ at' = "test"
    /\ UNCHANGED <<mode, control, req, modeBefore, startVal, arg, presses,
                   readback, prevReq, prevPresses, encoder, wr, button_line,
                   io_log, seqs, committed, fault, aux, poller, policy, cli, gui>>

NextSeq ==
    \/ \E w \in {"centre", "bandwidth"}, t \in SeqTargets : line_enter(w, t)
    \/ line_press
    \/ line_release
    \/ \E cf \in Levels, bw \in Levels : line_read(cf, bw)
    \/ line_loop_test
    \/ line_return
    \/ line_drive
    \/ line_update

SpecSeq == Init /\ [][NextSeq]_vars

(* ---------------------------------------------------------------------- *)
(* Line and bus failures                                                   *)
(* ---------------------------------------------------------------------- *)
\* Calls during which a line can fail, and volume writes during which the
\* bus can.  Here the indicators show the mode the press switched to.
FaultCalls == {<<"centre", 1450>>, <<"centre", 1550>>,
               <<"bandwidth", 2300>>, <<"bandwidth", 2600>>}
FaultVolumeArgs == {77, 300}

\* step_once: the next GPIO.output raises.  The exception leaves step_once,
\* step and the set_* call; the line is not driven and _update_* is not
\* reached.
line_drive_fails ==
    /\ at = "drive"
    /\ wr < LINE_WRITES
    /\ fault' = "encoder"
    /\ pc' = "idle"
    /\ at' = "idle"
    /\ UNCHANGED <<shadow, target, toggle_ret, observers, encoder, wr,
                   button_line, io_log, seqs, updates, committed, aux, poller,
                   policy, cli, gui>>

\* set_volume(value) with the bus write succeeding.
write_volume(value) ==
    /\ pc = "idle"
    /\ set_wiper(value)
    /\ enter_aux_call("volume", volume, value)
    /\ fault' = "none"
    /\ UNCHANGED <<shadow, control, encoder, bypass_state, bypass_line, poller,
                   policy, cli, gui, at, wr, button_line, io_log, seqs, updates,
                   committed>>

\* Variant of write_volume_fails that stores the volume before the write.
write_volume_fails_after_store(value) ==
    /\ pc = "idle"
    /\ spi_frames' = <<>>
    /\ volume' = wiper_clamp(value)
    /\ enter_aux_call("volume", volume, value)
    /\ fault' = "bus"
    /\ UNCHANGED <<shadow, control, encoder, bypass_state, bypass_line,
                   poller, policy, cli, gui, at, wr, button_line, io_log, seqs,
                   updates, committed>>

\* set_volume(value) with self.spi.xfer2 raising: no frame is written and
\* self.volume = value is not reached.
write_volume_fails(value) ==
    /\ pc = "idle"
    /\ spi_frames' = <<>>
    /\ enter_aux_call("volume", volume, value)
    /\ fault' = "bus"
    /\ UNCHANGED <<shadow, control, encoder, volume, bypass_state, bypass_line,
                   poller, policy, cli, gui, at, wr, button_line, io_log, seqs,
                   updates, committed>>

NextFault ==
    \/ \E c \in FaultCalls : line_enter(c[1], c[2])
    \/ line_press
    \/ line_release
    \/ line_read(IF req = "centre" THEN 1 ELSE 0, IF req = "centre" THEN 0 ELSE 1)
    \/ line_loop_test
    \/ line_return
    \/ line_drive
    \/ line_drive_fails
    \/ line_update
    \/ \E v \in FaultVolumeArgs : write_volume(v)
    \/ \E v \in FaultVolumeArgs : write_volume_fails(v)

SpecFault == Init /\ [][NextFault]_vars

\* set_bypass(on) with the line write succeeding.
write_bypass(on) ==
    /\ pc = "idle"
    /\ drive_bypass(on)
    /\ enter_aux_call("bypass", bypass_line, IF on THEN 1 ELSE 0)
    /\ fault' = "none"
    /\ UNCHANGED <<shadow, control, volume, spi_frames, poller, policy, cli,
                   gui, at, wr, button_line, io_log, seqs, updates, committed>>

\* set_bypass(on) with GPIO.output(self.BYPASS, ...) raising:
\* self.bypass_state = on has already run, the line is not driven.
write_bypass_fails(on) ==
    /\ pc = "idle"
    /\ bypass_state' = on
    /\ enter_aux_call("bypass", bypass_line, IF on THEN 1 ELSE 0)
    /\ fault' = "bypass"
    /\ UNCHANGED <<shadow, control, encoder, volume, bypass_line, spi_frames,
                   poller, policy, cli, gui, at, wr, button_line, io_log, seqs,
                   updates, committed>>

\* The single-shot writes, each succeeding or failing.
NextAuxFault ==
    \/ \E on \in BOOLEAN : write_bypass(on)
    \/ \E on \in BOOLEAN : write_bypass_fails(on)
    \/ \E v \in VolumeArgs : write_volume(v)
    \/ \E v \in VolumeArgs : write_volume_fails(v)

SpecAuxFault == Init /\ [][NextAuxFault]_vars

(* ---------------------------------------------------------------------- *)
(* The poller threads next to the caller's calls                           *)
(* ---------------------------------------------------------------------- *)
\* The call the caller thread makes while the pollers run: a press, the
\* readback and one detent.
BesideCalls == {<<"bandwidth", 2300>>}

\* _poll_overload_led: GPIO.input raises; the except clause prints, the
\* thread sleeps and tests again.
poll_read_fails(i) ==
    /\ poll_pc[i] = "read"
    /\ poll_pc' = [poll_pc EXCEPT ![i] = "test"]
    /\ UNCHANGED delivered_at_stop
    /\ UNCHANGED <<shadow, control, observers, encoder, aux, policy, surround,
                   level_cb, stop_meter, poll_raw, poll_reads, poll_delivered>>

\* The caller thread one line access at a time, the bypass toggle, and the
\* poller threads one statement at a time, in any interleaving.  The
\* caller registers one observer, as DSPGui does.
NextBeside ==
    \/ \E c \in BesideCalls : line_enter(c[1], c[2])
    \/ line_press
    \/ line_release
    \/ line_read(IF req = "centre" THEN 1 ELSE 0, IF req = "centre" THEN 0 ELSE 1)
    \/ line_loop_test
    \/ line_return
    \/ line_drive
    \/ line_update
    \/ toggle_bypass
    \/ set_level_callback("obs1")
    \/ \E i \in 1..MaxPollers : poll_test(i)
    \/ \E i \in 1..MaxPollers, raw \in Levels : poll_read(i, raw)
    \/ \E i \in 1..MaxPollers : poll_read_fails(i)
    \/ \E i \in 1..MaxPollers : poll_deliver(i)

SpecBeside == Init /\ [][NextBeside]_vars

(* ---------------------------------------------------------------------- *)
(* Convergence towards targets of the step grid                            *)
(* ---------------------------------------------------------------------- *)
\* Multiples of `unit` in lo..hi.
multiples(unit, lo, hi) == {v \in lo..hi : v % unit = 0}

\* Targets the centre-frequency slider snaps to: multiples of 25 below 2000
\* and of 50 from 2000 on.
CentreGrid ==
    multiples(CF_STEP_LOW, MIN_HZ, CF_THRESHOLD - 1)
        \cup multiples(CF_STEP_HIGH, CF_THRESHOLD, MAX_HZ)

\* Targets the bandwidth slider snaps to: multiples of 20 below 400, of 50
\* from 400 to 699 and of 100 from 700 on.
BandwidthGrid ==
    multiples(BW_STEP_LOW, MIN_HZ, BW_THRESHOLD_LOW - 1)
        \cup multiples(BW_STEP_MID, BW_THRESHOLD_LOW, BW_THRESHOLD_HIGH - 1)
        \cup multiples(BW_STEP_HIGH, BW_THRESHOLD_HIGH, MAX_HZ)

\* set_center_frequency called with targets of its grid, one call after
\* another.
NextCentre ==
    \/ \E t \in CentreGrid, cf \in Levels, bw \in Levels : set_center_frequency(t, cf, bw)
    \/ set_center_frequency_loop
    \/ set_center_frequency_return

SpecCentre == Init /\ [][NextCentre]_vars

\* set_bandwidth called with targets of its grid, one call after another.
NextGrid ==
    \/ \E t \in BandwidthGrid, cf \in Levels, bw \in Levels : set_bandwidth(t, cf, bw)
    \/ set_bandwidth_loop
    \/ set_bandwidth_return

SpecGrid == Init /\ [][NextGrid]_vars

(* ---------------------------------------------------------------------- *)
(* Properties                                                              *)
(* ---------------------------------------------------------------------- *)
\* The two readbacks toggle_mode rejects: both lines clear, both asserted.
InvalidReadbacks == {<<0, 0>>, <<1, 1>>}

\* The call in progress (or the last one) is a set_center_frequency or a
\* set_bandwidth.
IsSetCall == req \in {"centre", "bandwidth"}

\* Longest walk a loop that only ever approaches its target can take across
\* the domain, at the smallest step of the parameter.
MaxCenterIterations == (MAX_HZ - MIN_HZ) \div CF_STEP_LOW
MaxBandwidthIterations == (MAX_HZ - MIN_HZ) \div BW_STEP_LOW

\* C1: with shadow mode = centre, set_center_frequency(t) ends after a
\* bounded number of encoder steps (no more than a walk across the whole
\* domain at the smallest step) and leaves center_freq within one step size
\* of t.
C1_CenterConvergenceBounded ==
    (req = "centre" /\ mode = "centre") =>
        /\ nsteps <= MaxCenterIterations
        /\ pc = "idle" => Abs(center_freq - target) <= center_step_size(center_freq)

\* C2: with shadow mode = bandwidth, set_bandwidth(t) is never an unbounded
\* loop: it issues no more encoder steps than a walk across the whole domain
\* at the smallest step.
C2_BandwidthConvergenceBounded ==
    (req = "bandwidth" /\ mode = "bandwidth") => nsteps <= MaxBandwidthIterations

\* C3: in every reachable state center_freq is a multiple of the step size
\* the policy reports for center_freq, and bandwidth is a multiple of the
\* step size the policy reports for bandwidth.
C3_ShadowOnPolicyGrid ==
    /\ center_freq % center_step_size(center_freq) = 0
    /\ bandwidth % bandwidth_step_size(bandwidth) = 0

\* C4: when a set_* call had to switch mode and the readback did not confirm
\* the mode it needs, the call issues no encoder step.
C4_NoStepWithoutConfirmedMode ==
    (IsSetCall /\ presses = 1 /\ mode # req) => nsteps = 0

\* C5: an invalid readback after a button press is reported to the caller:
\* what toggle_mode hands back differs from what it hands back after a
\* successful transition.
C5_InvalidReadbackReported ==
    (presses = 1 /\ readback \in InvalidReadbacks) =>
        toggle_ret \notin {toggle_return(1, 0), toggle_return(0, 1)}

\* C6: when the readback after a button press is invalid, the shadow mode
\* after toggle_mode is the shadow mode before it.
C6_InvalidReadbackKeepsMode ==
    (presses = 1 /\ readback \in InvalidReadbacks) => mode = modeBefore

\* C6 witness: a press made in bandwidth mode whose readback was invalid.
C6_Witness ==
    presses = 1 /\ readback = <<0, 0>> /\ modeBefore = "bandwidth"

\* C7 (as claimed): two consecutive requests for the same mode press the
\* button at most once in total, for every readback.
C7_AtMostOnePressInTwoCalls ==
    (IsSetCall /\ prevReq = req) => prevPresses + presses <= 1

\* C7 (amended): two consecutive requests for the same mode press the button
\* at most once in total when the first leaves the shadow mode equal to the
\* requested mode; when it does not, the second request presses once more.
C7_AtMostOnePressOnceModeHeld ==
    (IsSetCall /\ prevReq = req) =>
        IF modeBefore = req
        THEN prevPresses + presses <= 1
        ELSE presses = 1

\* C7 witness: the second of two set_bandwidth calls, the first of which
\* pressed the button and got bandwidth mode confirmed.
C7_Witness ==
    /\ req = "bandwidth" /\ prevReq = "bandwidth"
    /\ modeBefore = "bandwidth" /\ prevPresses = 1 /\ presses = 0

\* C8: when the shadow mode already is the mode a request needs, the mode
\* step does nothing: no button press, no indicator read, mode unchanged.
C8_ModeStepNoOp ==
    (IsSetCall /\ modeBefore = req) =>
        presses = 0 /\ readback = <<>> /\ mode = modeBefore

\* C8 witness: set_center_frequency entered with the shadow mode at centre.
C8_Witness ==
    req = "centre" /\ modeBefore = "centre" /\ pc = "cf_loop"

\* C9: after a button press a readback of (1, 0) makes the shadow mode
\* centre and (0, 1) makes it bandwidth, whatever the previous mode and the
\* requested mode; no other readback changes the mode.
C9_ReadbackDecidesMode ==
    presses = 1 =>
        /\ readback = <<1, 0>> => mode = "centre"
        /\ readback = <<0, 1>> => mode = "bandwidth"
        /\ readback \notin {<<1, 0>>, <<0, 1>>} => mode = modeBefore

\* C9 witness: set_center_frequency pressed the button from bandwidth mode
\* and the indicators read (0, 1): the shadow mode is bandwidth.
C9_Witness ==
    /\ req = "centre" /\ presses = 1 /\ readback = <<0, 1>>
    /\ modeBefore = "bandwidth" /\ mode = "bandwidth"

\* The call is set_center_frequency(1650) entered at center_freq = 1500 in
\* centre mode.
InScenario1650 ==
    req = "centre" /\ modeBefore = "centre" /\ startVal = 1500 /\ target = 1650

\* C10: from center_freq = 1500 in centre mode, set_center_frequency(1650)
\* issues exactly 6 steps, all CW, each raising center_freq by 25, and stops
\* at 1650 with no further pulses.
C10_Scenario1650 ==
    InScenario1650 =>
        /\ center_freq = 1500 + 25 * nsteps
        /\ nsteps <= 6
        /\ dirs \subseteq {"CW"}
        /\ nsteps = 6 => ~ ENABLED set_center_frequency_loop
        /\ pc = "idle" => (nsteps = 6 /\ center_freq = 1650)

\* C10 witness: the scenario's call has returned.
C10_Witness ==
    InScenario1650 /\ pc = "idle" /\ nsteps = 6

\* The call is set_bandwidth(1000) entered at bandwidth = 350 in bandwidth
\* mode.
InScenario1000 ==
    req = "bandwidth" /\ modeBefore = "bandwidth" /\ startVal = 350 /\ arg = 1000

\* C11: from bandwidth = 350 in bandwidth mode, set_bandwidth(1000) steps by
\* 20, then 50, then 100 as the value crosses 400 and 700, and the call
\* ends: at 1000, or by a rule that stops it once 1000 is overshot.  Ending
\* means no more steps than a walk across the whole domain.
C11_Scenario1000Ends ==
    InScenario1000 =>
        /\ nsteps <= MaxBandwidthIterations
        /\ pc = "idle" => bandwidth = 1000

\* C13: in every reachable state center_freq and bandwidth are integers in
\* [200, 3500], whatever integer targets were given and whichever way the
\* detents went.
C13_ShadowInDomain ==
    /\ center_freq \in MIN_HZ..MAX_HZ
    /\ bandwidth \in MIN_HZ..MAX_HZ

\* C13 witness: a step taken at the upper end of the domain in a call whose
\* argument lies above it; the value is held at 3500.
C13_Witness ==
    /\ arg > MAX_HZ /\ nsteps > 0 /\ bandwidth = MAX_HZ /\ startVal < MAX_HZ
    /\ req = "bandwidth" /\ mode = "bandwidth"

\* The call runs in the mode it needs with an argument outside the domain.
BelowDomainCall == IsSetCall /\ mode = req /\ arg < MIN_HZ
AboveDomainCall == IsSetCall /\ mode = req /\ arg > MAX_HZ

\* The shadow value of the parameter the call is about.
OwnValue == IF req = "centre" THEN center_freq ELSE bandwidth

\* C14: with the needed mode active, a call with an argument below 200 ends
\* with the shadow value exactly 200 and one with an argument above 3500
\* ends with exactly 3500: the target is the clamped argument, the walk only
\* ever goes towards it, takes no more steps than a walk across the domain,
\* can go on until the value is the bound, and has the bound on return.
C14_OutOfRangeTargetClamped ==
    /\ BelowDomainCall =>
        /\ target = MIN_HZ
        /\ dirs \subseteq {"CCW"}
        /\ nsteps <= MaxBandwidthIterations
        /\ OwnValue = MIN_HZ \/ pc # "idle"
    /\ AboveDomainCall =>
        /\ target = MAX_HZ
        /\ dirs \subseteq {"CW"}
        /\ nsteps <= MaxBandwidthIterations
        /\ OwnValue = MAX_HZ \/ pc # "idle"

\* C14 witness: set_bandwidth with an argument below 200 has returned, having
\* started from a value off the 20-grid and walked down to 200.
C14_Witness ==
    /\ BelowDomainCall /\ req = "bandwidth" /\ pc = "idle"
    /\ startVal = 350 /\ nsteps > 0 /\ bandwidth = MIN_HZ

\* C19: one CW detent drives (ENC_A, ENC_B) through (0,0), (0,1), (1,1),
\* (1,0) in that order, one CCW detent through (1,0), (1,1), (0,1), (0,0);
\* nothing else is written to the encoder lines, which rest on the last
\* pair written.
C19_QuadratureSequence ==
    /\ last_dir = "none" => (enc_trace = <<>> /\ enc_lines = <<0, 0>>)
    /\ last_dir = "CW" =>
        /\ enc_trace = << <<0, 0>>, <<0, 1>>, <<1, 1>>, <<1, 0>> >>
        /\ enc_lines = <<1, 0>>
    /\ last_dir = "CCW" =>
        /\ enc_trace = << <<1, 0>>, <<1, 1>>, <<0, 1>>, <<0, 0>> >>
        /\ enc_lines = <<0, 0>>
    /\ last_dir \in {"none", "CW", "CCW"}

\* C19 witness: a CCW detent has been emitted by a convergence loop.
C19_Witness ==
    last_dir = "CCW" /\ nsteps > 0 /\ enc_trace # <<>>

\* C15: set_volume clamps its integer argument to [0, 255]: 300 stores 255,
\* -5 stores 0, a value inside the range is stored as it is; the shadow
\* volume is in [0, 255] in every reachable state.
C15_VolumeClamped ==
    /\ volume \in 0..255
    /\ req = "volume" =>
        volume = IF arg > 255 THEN 255 ELSE IF arg < 0 THEN 0 ELSE arg

\* C15 witness: set_volume(300) has stored 255.
C15_Witness ==
    req = "volume" /\ arg = 300 /\ volume = 255

\* C16: a set_volume call writes exactly one frame of two bytes, 0x11 and
\* the clamped value, and afterwards the shadow volume is the wiper value of
\* that frame.
C16_OneWiperFrame ==
    req = "volume" =>
        /\ Len(spi_frames) = 1
        /\ Len(spi_frames[1]) = 2
        /\ spi_frames[1][1] = 17
        /\ spi_frames[1][2] = (IF arg > 255 THEN 255 ELSE IF arg < 0 THEN 0 ELSE arg)
        /\ volume = spi_frames[1][2]

\* C16 witness: set_volume(-5) has written the frame [0x11, 0].
C16_Witness ==
    req = "volume" /\ arg = -5 /\ spi_frames = << <<17, 0>> >>

\* C17: after set_bypass(on) the BYPASS line is HIGH if on and LOW otherwise
\* and bypass_state is on; toggle_bypass inverts the line and the state.
\* (arg is 1 for on and 0 for off, startVal the line level before the call.)
C17_BypassLineFollowsState ==
    /\ bypass_state = (bypass_line = 1)
    /\ req = "bypass" => (bypass_line = arg /\ bypass_state = (arg = 1))
    /\ req = "toggle_bypass" =>
        (bypass_line = 1 - startVal /\ bypass_state = (startVal = 0))

\* C17 witness: toggle_bypass has taken the line from HIGH to LOW.
C17_Witness ==
    req = "toggle_bypass" /\ startVal = 1 /\ bypass_line = 0 /\ ~ bypass_state

\* The calls that are single-shot writes.
BypassCalls == {"bypass", "toggle_bypass"}
AuxCalls == BypassCalls \cup {"volume"}

\* C18: set_bypass and set_volume are single-shot writes: the step that
\* performs one issues no detent, no button press and no indicator read and
\* leaves mode, center_freq and bandwidth as they were; set_bypass leaves
\* the volume (and the bus) alone and set_volume leaves the bypass state and
\* line alone.
C18_AuxCallsTouchNothingElse ==
    [][req' \in AuxCalls =>
        /\ mode' = mode
        /\ center_freq' = center_freq
        /\ bandwidth' = bandwidth
        /\ encoder' = encoder
        /\ nsteps' = 0 /\ presses' = 0 /\ readback' = <<>>
        /\ req' \in BypassCalls => (volume' = volume /\ spi_frames' = spi_frames)
        /\ req' = "volume" =>
            (bypass_state' = bypass_state /\ bypass_line' = bypass_line)
      ]_vars

\* C18 witness: set_bypass(True) issued after the convergence calls moved
\* the shadow state away from the defaults and after a volume write.
C18_Witness ==
    /\ req = "bypass" /\ bypass_state
    /\ mode = "bandwidth" /\ center_freq = 1650 /\ volume = 77
    /\ last_dir # "none"

\* C12: the step size of one detent depends on the parameter's current
\* value alone: for center frequency 25 below 2000 and 50 from 2000 on; for
\* bandwidth 20 below 400, 50 from 400 to 699 and 100 from 700 on; for every
\* value of [200, 3500].  One detent moves the value by that step, up or
\* down, held inside [200, 3500].
C12_StepSizePolicy ==
    pol_step # 0 =>
        /\ pol_param = "center" =>
            /\ pol_step = (IF pol_value < 2000 THEN 25 ELSE 50)
            /\ update_center(pol_value, "CW", 1) = Min(3500, pol_value + pol_step)
            /\ update_center(pol_value, "CCW", 1) = Max(200, pol_value - pol_step)
        /\ pol_param = "bandwidth" =>
            /\ pol_step = (IF pol_value < 400 THEN 20
                           ELSE IF pol_value < 700 THEN 50 ELSE 100)
            /\ update_bandwidth(pol_value, "CW", 1) = Min(3500, pol_value + pol_step)
            /\ update_bandwidth(pol_value, "CCW", 1) = Max(200, pol_value - pol_step)

\* C12 witness: the policy asked for bandwidth exactly at the threshold 700.
C12_Witness ==
    pol_param = "bandwidth" /\ pol_value = 700 /\ pol_step = 100

\* The levels a poller thread delivered, and the line levels they came from.
DeliveredLevels(i) == [k \in 1..Len(poll_delivered[i]) |-> poll_delivered[i][k].level]
DeliveredRaws(i) == [k \in 1..Len(poll_delivered[i]) |-> poll_delivered[i][k].raw]

\* C20: every value the poller hands to the observer is 1.0 when the line
\* read on that tick was asserted and 0.0 otherwise, nothing else is ever
\* delivered, and the deliveries follow the reads one for one in the same
\* order (so a line alternating on successive ticks gives alternating
\* 1.0 / 0.0).  Levels are in hundredths.
C20_DeliveredLevelFollowsLine ==
    \A i \in 1..MaxPollers :
        /\ \A k \in 1..Len(poll_delivered[i]) :
            /\ poll_delivered[i][k].level \in {0, 100}
            /\ poll_delivered[i][k].level = 100 <=> poll_reads[i][k] = 1
        /\ Len(poll_delivered[i]) <= Len(poll_reads[i])
        /\ Len(poll_reads[i]) <= Len(poll_delivered[i]) + 1
        /\ DeliveredRaws(i) = SubSeq(poll_reads[i], 1, Len(poll_delivered[i]))

\* C20 witness: a poller read high, low, high on three successive ticks and
\* delivered 1.0, 0.0, 1.0.
C20_Witness ==
    \E i \in 1..MaxPollers :
        /\ poll_reads[i] = <<1, 0, 1>>
        /\ DeliveredLevels(i) = <<100, 0, 100>>

\* Poller threads whose loop is running: past its test, or at a test that
\* will let it go round again.
ActivePollers ==
    {i \in 1..MaxPollers :
        \/ poll_pc[i] \in {"read", "deliver"}
        \/ poll_pc[i] = "test" /\ ~ stop_meter}

\* C21: after any number of set_level_callback calls at most one polling
\* loop is active, so that per poll period the overload line is sampled once
\* and the registered observer is invoked once.
C21_SinglePoller ==
    Cardinality(ActivePollers) <= 1

\* C23: for every sequence of calls and every readback, no step of
\* set_center_frequency changes the shadow bandwidth and no step of
\* set_bandwidth changes the shadow center_freq.
C23_OtherParameterUntouched ==
    [][/\ (pc = "cf_loop" \/ pc' = "cf_loop") => bandwidth' = bandwidth
       /\ (pc = "bw_loop" \/ pc' = "bw_loop") => center_freq' = center_freq
      ]_vars

\* The value one detent in direction d takes v to, at step size s.
MovedBy(v, d, s) == Max(200, Min(3500, IF d = "CW" THEN v + s ELSE v - s))

\* C28: one convergence iteration picks CW if target > shadow value and CCW
\* otherwise, issues exactly one detent (four phase pairs) in that
\* direction, and sets the shadow value of the parameter being converged to
\* clamp(shadow +/- step, 200, 3500), step being the policy step size of the
\* value before the move.
C28_OneIteration ==
    [][/\ (pc = "cf_loop" /\ pc' = "cf_loop") =>
            /\ last_dir' = (IF target > center_freq THEN "CW" ELSE "CCW")
            /\ Len(enc_trace') = 4
            /\ center_freq' = MovedBy(center_freq, last_dir',
                                      IF center_freq < 2000 THEN 25 ELSE 50)
       /\ (pc = "bw_loop" /\ pc' = "bw_loop") =>
            /\ last_dir' = (IF target > bandwidth THEN "CW" ELSE "CCW")
            /\ Len(enc_trace') = 4
            /\ bandwidth' = MovedBy(bandwidth, last_dir',
                                    IF bandwidth < 400 THEN 20
                                    ELSE IF bandwidth < 700 THEN 50 ELSE 100)
      ]_vars

C24_BandwidthGridTargetsReached ==
    (req = "bandwidth" /\ mode = "bandwidth"
        /\ (\/ arg % 20 = 0 /\ arg \in 200..399
            \/ arg % 50 = 0 /\ arg \in 400..699
            \/ arg % 100 = 0 /\ arg \in 700..3500)) =>
        /\ nsteps <= MaxBandwidthIterations
        /\ pc = "idle" => bandwidth = arg

\* The value n successive step(direction, detents=1) calls take v to, for the
\* parameter the mode m names.
RECURSIVE single_steps(_, _, _, _)
single_steps(m, v, direction, n) ==
    IF n = 0 THEN v
    ELSE single_steps(m,
                      IF m = "centre" THEN update_center(v, direction, 1)
                      ELSE update_bandwidth(v, direction, 1),
                      direction, n - 1)

\* C27: step(direction, detents=n) leaves the shadow state equal to the
\* state after n successive step(direction, detents=1) calls, for every
\* n >= 1, both directions, both modes and every reachable starting value.
\* (startVal is the value of the mode's parameter before the call, arg is n.)
C27_StepEqualsSingleSteps ==
    req = "step" =>
        (IF mode = "centre" THEN center_freq ELSE bandwidth)
            = single_steps(mode, startVal, last_dir, arg)

\* C25: with the GUI on the driver and the bandwidth mode confirmed, every
\* sequence of arrow nudges on the bandwidth slider, starting from 1200
\* after the initial push, gives set_bandwidth calls each of which ends
\* (within a walk across the domain at the smallest step) with the shadow
\* bandwidth equal to the slider value.
C25_NudgedTargetsReached ==
    (gui_stage = "ready" /\ req = "bandwidth" /\ mode = "bandwidth") =>
        /\ nsteps <= MaxBandwidthIterations
        /\ pc = "idle" => bandwidth = bw_slider

\* C22: when an encoder line cannot be driven during a convergence step the
\* call is aborted (no further line write, no update) and center_freq and
\* bandwidth keep the values of the last step that completed; when the bus
\* cannot be written during a volume write, no frame goes out and the
\* shadow volume keeps the value of the last write that completed.
C22_FailureKeepsLastValue ==
    /\ fault = "encoder" =>
        /\ pc = "idle" /\ at = "idle"
        /\ <<center_freq, bandwidth>> = committed
        /\ updates = seqs
        /\ wr < 8
    /\ fault = "bus" =>
        /\ pc = "idle" /\ req = "volume"
        /\ volume = startVal
        /\ spi_frames = <<>>

\* C22 witness: set_center_frequency(1550) from 1500 completed one step and
\* failed in the middle of the second detent; center_freq is 1525.
C22_Witness ==
    /\ fault = "encoder" /\ req = "centre" /\ arg = 1550 /\ startVal = 1500
    /\ updates = 1 /\ wr = 3 /\ center_freq = 1525

\* C29: within a convergence call the shadow value of a step is updated
\* only after all four phase pairs of that step have been driven (eight
\* line writes), a line is written for the next step only after that
\* update, and when the call returns the number of shadow updates equals
\* the number of detent sequences driven.
C29_StrictlySequential ==
    [][/\ (center_freq' # center_freq \/ bandwidth' # bandwidth) =>
            /\ at = "update" /\ wr = 8 /\ Len(enc_trace) = 4
            /\ seqs < StepCap => (seqs = updates + 1 /\ updates' = seqs)
       /\ wr' = wr + 1 =>
            /\ at = "drive"
            /\ seqs = updates
            /\ center_freq' = center_freq /\ bandwidth' = bandwidth
       /\ (pc # "idle" /\ pc' = "idle") => updates = seqs
      ]_vars

\* C29 witness: a convergence call is back at its loop test after two
\* complete iterations.
C29_Witness ==
    pc = "cf_loop" /\ at = "test" /\ seqs = 2 /\ updates = 2 /\ wr = 8

\* a is an initial part of b.
IsPrefix(a, b) == Len(a) <= Len(b) /\ a = SubSeq(b, 1, Len(a))

\* C30: a mode transition is exactly one button press, in this order:
\* button LOW, button HIGH, then the CF and BW indicator lines are read.
\* The indicators are never read while the button is LOW, no second press
\* occurs within one set_center_frequency / set_bandwidth call, and the
\* button line is HIGH whenever no transition is in progress.
C30_OnePressInOrder ==
    /\ IsPrefix(io_log, <<"BUTTON_LOW", "BUTTON_HIGH", "READ_CF", "READ_BW">>)
    /\ presses <= 1
    /\ presses = 1 <=> Len(io_log) > 0
    /\ button_line = 0 <=> at = "release"
    /\ at \notin {"press", "release", "read"} => button_line = 1
    /\ readback # <<>> => Len(io_log) = 4
    /\ (IsSetCall /\ at \in {"test", "drive", "update", "idle"}) =>
            Len(io_log) = (IF modeBefore # req THEN 4 ELSE 0)

\* C30 witness: a call pressed once, read an invalid combination, and is in
\* its loop without having pressed again.
C30_Witness ==
    /\ at = "drive" /\ presses = 1 /\ readback = <<1, 1>> /\ updates > 0
    /\ io_log = <<"BUTTON_LOW", "BUTTON_HIGH", "READ_CF", "READ_BW">>
    /\ button_line = 1

\* Number of encoder lines on which two phase pairs differ.
lines_differing(p, q) ==
    (IF p[1] # q[1] THEN 1 ELSE 0) + (IF p[2] # q[2] THEN 1 ELSE 0)

\* C33: across any sequence of CW and CCW detents from the constructor's
\* lines (0, 0), direction reversals and the boundary between consecutive
\* detents included, two successive phase pairs driven on the encoder
\* lines differ in at most one of the two lines.  (When the first line of
\* a pair is about to be written the lines hold the pair driven before it;
\* once its second line is written they hold the pair itself.)
C33_OneLinePerPhase ==
    [][(at = "drive" /\ wr' = wr + 1) =>
          IF wr % 2 = 0
          THEN /\ wr > 0 => enc_lines = pair_at(wr - 2)
               /\ lines_differing(enc_lines, pair_at(wr)) <= 1
          ELSE enc_lines' = pair_at(wr)
      ]_vars

\* C33 witness: after a CW call (1500 -> 1550) a CCW call is in its second
\* detent: the reversal and a detent boundary are behind it and the first
\* pair of the second CCW detent, (1, 0), is on the lines.
C33_Witness ==
    /\ req = "centre" /\ startVal = 1550 /\ arg = 1450 /\ last_dir = "CCW"
    /\ at = "drive" /\ seqs = 1 /\ wr = 2 /\ enc_lines = <<1, 0>>

\* A started poller thread takes a step.
poller_step ==
    \E i \in 1..MaxPollers : poll_pc[i] # "unstarted" /\ poll_pc'[i] # poll_pc[i]

\* C32: the overload poller only reads the overload indicator line: in
\* every interleaving with the caller's calls a step of a poller thread
\* writes none of the encoder, button and bypass lines, reads neither the
\* CF nor the BW indicator line, and changes none of mode, center_freq,
\* bandwidth, volume and bypass_state (nor the caller's position).
C32_PollerOnlyReadsOverload ==
    [][poller_step =>
          /\ UNCHANGED <<enc_lines, enc_trace, button_line, bypass_line, spi_frames>>
          /\ UNCHANGED <<io_log, readback>>
          /\ UNCHANGED <<mode, center_freq, bandwidth, volume, bypass_state>>
          /\ UNCHANGED <<pc, at, wr, target>>
      ]_vars

\* C32 witness: a poller thread has read the overload line and delivered
\* while the caller is between two line writes of a detent, after a press.
C32_Witness ==
    /\ at = "drive" /\ wr = 3 /\ presses = 1
    /\ \E i \in 1..MaxPollers :
          /\ poll_pc[i] = "deliver" /\ Len(poll_reads[i]) = 2
          /\ Len(poll_delivered[i]) = 1

\* C34: in every reachable state, also after a set_bypass call whose line
\* access failed, the shadow bypass_state equals the level last driven
\* successfully on the bypass line (False / LOW initially).
C34_BypassStateIsLineLevel ==
    bypass_line = bypass_level(bypass_state)

\* Poller threads that are inside their loop.
running == {i \in 1..MaxPollers : poll_pc[i] \in {"test", "read", "deliver"}}

\* Every thread about to read the line is within the reads followed here.
reads_left ==
    reads_made(MaxPollers) + Cardinality({i \in running : poll_pc[i] = "read"})
        <= MaxTicks

\* C35: after stop(), as long as no set_level_callback call follows (the
\* stop flag is still set), every poller thread makes at most one more
\* observer call, a thread that has left its loop stays out of it and
\* calls nothing, and eventually no thread is inside its loop.
C35_StopEndsPollers ==
    /\ [](stop_meter =>
            \A i \in 1..MaxPollers :
                Len(poll_delivered[i]) <= delivered_at_stop[i] + 1)
    /\ [][\A i \in 1..MaxPollers :
            poll_pc[i] = "done" =>
                /\ poll_pc'[i] = "done"
                /\ poll_delivered'[i] = poll_delivered[i]]_vars
    /\ []((stop_meter /\ reads_left) => <>(~ stop_meter \/ running = {}))

\* C35 witness: stop() found thread 1 between its loop test and its read;
\* the thread made one more observer call and has left its loop.
C35_Witness ==
    /\ stop_meter
    /\ poll_pc[1] = "done"
    /\ Len(poll_delivered[1]) = delivered_at_stop[1] + 1

\* C36: every user toggle of the DSP/BYPASS switch hands hw.set_bypass the
\* inverse of the value handed to it before (the first being the False
\* pushed at construction), so the bypass state sent to the hardware
\* changes on every toggle, the first included.
C36_ToggleInvertsDelivered ==
    \A k \in 2..Len(bypass_calls) : bypass_calls[k] # bypass_calls[k - 1]

\* No thread is inside the LED code.
led_at_rest == \A t \in Threads : led_pc[t] = "idle"

\* The level most recently handed to _on_level_update is an overload.
overloaded == last_level >= OVERLOAD_THRESHOLD

\* C37: with all level updates handled on one thread, after any sequence
\* of level updates the LED is flashing iff the last level was >= 0.90; at
\* most one flash timer job is pending at any time (a start_flash while
\* flashing schedules nothing new); while flashing the pending job is the
\* one the LED remembers; after stop_flash no job is pending, none is
\* remembered and the LED is dim.
C37_FlashesWhileOverloaded ==
    /\ Cardinality(timers) <= 1
    /\ led_at_rest =>
          /\ led_flashing <=> overloaded
          /\ led_flashing => timers = {led_job}
          /\ ~ led_flashing =>
                timers = {} /\ led_job = 0 /\ led_color = "dim"

\* C37 witness: the LED flashed, was stopped, and flashes again on its
\* third timer job after a level of exactly 0.90.
C37_Witness ==
    /\ led_at_rest /\ last_level = 90 /\ led_flashing
    /\ jobs_made = 3 /\ timers = {3} /\ led_job = 3 /\ led_color = "dim"

\* C31: with the level observer called on the poller thread while the
\* main thread runs the flash timer, in every interleaving: whenever the
\* level delivered last is below 0.90 and no handler is in the middle of
\* its execution, the LED is not flashing, no flash timer job is pending
\* and the LED shows the dim colour.
C31_RestsDimBelowThreshold ==
    (led_at_rest /\ last_level >= 0 /\ ~ overloaded) =>
        /\ ~ led_flashing
        /\ timers = {}
        /\ led_color = "dim"

\* The handlers a publish called, in order.
called == [k \in 1..Len(pub_calls) |-> pub_calls[k].handler]

\* C39: publish(topic, payload) calls each handler subscribed to that
\* topic before the publish began exactly once per subscription, in
\* subscription order and with the payload, calls no handler subscribed
\* only to other topics, and does not call a handler subscribed during the
\* publish.  (While the publish runs the calls made so far are an initial
\* part of the list of subscriptions; when it has returned they are the
\* whole list.)
C39_EachSubscriptionOnceInOrder ==
    /\ IsPrefix(called, pub_before)
    /\ \A k \in 1..Len(pub_calls) : pub_calls[k].payload = pub_payload
    /\ pub_result = "returned" => called = pub_before

\* C39 witness: a publish on "bypass" returned after calling h1 then h2;
\* the first call subscribed another handler to the topic, which was not
\* called, and the other topic has a subscriber too.
C39_Witness ==
    /\ pub_result = "returned" /\ pub_topic = "bypass"
    /\ called = <<"h1", "h2">>
    /\ pub_calls[1].outcome = "subscribes"
    /\ Len(subs["bypass"]) = 3
    /\ subs["volume_pct"] # <<>>

\* C38 as stated: publish never raises because of a handler: whatever a
\* handler raises, the handlers subscribed after it are still called and
\* publish returns normally.
C38_PublishNeverRaises ==
    /\ pub_result # "raised"
    /\ (pub_pc = "idle" /\ pub_result # "none") => called = pub_before

\* C38 amended: publish does not raise because of a handler that raises an
\* exception of class Exception: the handlers subscribed after it are
\* still called with the payload and publish returns normally.  Publish
\* raises only when a handler raises outside that class, and that call is
\* then its last.
C38_ExceptionsAreContained ==
    /\ pub_result = "raised" <=>
          (pub_calls # <<>> /\ pub_calls[Len(pub_calls)].outcome = "exits")
    /\ \A k \in 1..Len(pub_calls) :
          pub_calls[k].outcome = "exits" => k = Len(pub_calls)
    /\ (pub_pc = "idle" /\ pub_result \in {"none", "returned"}) =>
          called = pub_before
    /\ (pub_pc = "loop" /\ pub_idx > 1) =>
          pub_calls[pub_idx - 1].outcome # "exits"

\* C38 witness: the first of three handlers raised an exception, the two
\* after it were called and publish returned.
C38_Witness ==
    /\ pub_result = "returned" /\ Len(pub_calls) = 3
    /\ pub_calls[1].outcome = "raises"
    /\ pub_calls[3].payload = pub_payload

====
